---- MODULE Spec2Model ----
(***************************************************************************)
(* A model of the server of the Bole fitness tracker (server/routes.ts):   *)
(* the entry store behind /api/pushups and /api/walks, and the video       *)
(* pipeline behind /api/form-check.                                        *)
(*                                                                         *)
(* Numbers that travel in a JSON body are kept in tenths (20 is 2.0, 25 is *)
(* 2.5, -10 is -1.0) so that a fractional value is distinguishable from an *)
(* integer one; the pushups.count column is an integer column, walks.miles *)
(* a real one.                                                             *)
(***************************************************************************)
EXTENDS Integers, FiniteSets, Sequences, TLC

\* ------------------------------------------------------------------ bounds

\* Rows inserted over a run, in both tables together.
MaxCreates == 2

\* The registered users (users.id); Anonymous is a request without a session.
Users == {1, 2}
Anonymous == 0
Sessions == Users \cup {Anonymous}

\* The instants the server clock can show when new Date() reads it.
Times == {1, 2}

\* ------------------------------------------------------- JavaScript values

JsNumber(v) == [t |-> "number", v |-> v]
\* a string that spells the number v
JsNumeric(v) == [t |-> "numeric-string", v |-> v]
\* a non-empty string that spells no number, such as "abc"
JsText == [t |-> "text", v |-> 0]
JsUndefined == [t |-> "undefined", v |-> 0]

\* The values a client can put in the count or miles field of the body:
\* -1, 0, 2, 2.5, "2", "abc", and nothing.
BodyValues ==
  {JsNumber(-10), JsNumber(0), JsNumber(20), JsNumber(25), JsNumeric(20),
   JsText, JsUndefined}

\* The values of the date field: absent, an ISO date string of instant v, and a
\* string no Date can be parsed from.
DateIso(v) == [t |-> "iso", v |-> v]
DateGarbage == [t |-> "text", v |-> 0]
DateUndefined == [t |-> "undefined", v |-> 0]
BodyDates == {DateUndefined, DateIso(1), DateGarbage}

\* The :id segment of a DELETE path: the digits of n, the digits of n followed
\* by other characters ("1abc"), or no leading digits at all ("abc").
IdDigits(n) == [t |-> "digits", v |-> n]
IdPrefixed(n) == [t |-> "digits-then-text", v |-> n]
IdText == [t |-> "text", v |-> 0]
IdParams ==
  {IdDigits(n) : n \in 1..MaxCreates} \cup {IdPrefixed(1), IdText}

\* JavaScript truthiness, as `!count` and `date ? .. : ..` use it.
Truthy(x) ==
  CASE x.t = "number" -> x.v # 0
    [] x.t = "undefined" -> FALSE
    [] OTHER -> TRUE

\* isNaN(x): whether Number(x) is NaN.
isNaN(x) == x.t \in {"text", "undefined"}

\* Number(x), for an x that isNaN does not reject.
Number(x) == x.v

\* parseInt(id): the leading digits; NaN when there are none.
parseIntIsNaN(id) == id.t = "text"
parseInt(id) == id.v

isAuthenticated_Always(session) == TRUE

\* req.isAuthenticated()
isAuthenticated(session) == session # Anonymous

\* ------------------------------------------------------------------- state

VARIABLES
  pushups,     \* the rows of table pushups: [id, userId, count, date]
  walks,       \* the rows of table walks: [id, userId, miles, date]
  pushupSeq,   \* the last value the serial pushups.id handed out
  walkSeq,     \* the last value the serial walks.id handed out
  req,         \* the entry-store request being handled, NoRequest when none is
  res,         \* the response to the request handled last
  now          \* what new Date() returned to that request; 0 when it read no clock

storeVars == <<pushups, walks, pushupSeq, walkSeq, req, res, now>>

VARIABLES
  apiKey,   \* whether process.env.GEMINI_API_KEY is set
  disk,     \* the paths that exist under uploads/
  fc        \* per form-check request: where it stands and what it has done

formVars == <<apiKey, disk, fc>>

VARIABLES
  entries,   \* the list the home page charts: useQuery's data, [count, date]
  view,      \* the chart's view: 'daily', 'weekly' or 'monthly'
  chart,     \* what chartData holds for entries and view
  query      \* the client's query or mutation in flight, and its attempts

VARIABLES
  stats,        \* the home page's [totalPushups, dailyAverage] for entries
  entryForm,    \* the pushup and walk forms of the home page and their submissions
  preference,   \* the stored value of 'healthkit_auto_sync': "true", "false" or "null"
  healthSync,   \* per added entry: its mutation and the health-store write behind it
  healthKit,    \* the HealthKitSettings component and its connect handler
  formCheck,    \* the FormCheck component and its upload
  swipe,        \* one SwipeableEntry: offsetX and the touch in progress
  entryList     \* one EntryList: its entries prop, isExpanded and what it renders

uiVars == <<entryForm, preference, healthSync, healthKit, formCheck, swipe, entryList>>
clientVars == <<entries, view, chart, query, stats, uiVars>>
vars ==
  <<pushups, walks, pushupSeq, walkSeq, req, res, now, apiKey, disk, fc,
    entries, view, chart, query, stats, entryForm, preference, healthSync,
    healthKit, formCheck, swipe, entryList>>

\* A request: its route, the session's user, and what the route reads of the
\* body (count or miles, date) and of the path (:id).
Request(route, session, value, date, id) ==
  [route |-> route, user |-> session, value |-> value, date |-> date, id |-> id]

NoRequest == Request("none", Anonymous, JsUndefined, DateUndefined, IdText)

ApiRequests ==
  {Request(rt, s, JsUndefined, DateUndefined, IdText) :
     rt \in {"GET /api/pushups", "GET /api/walks"}, s \in Sessions}
  \cup
  {Request(rt, s, v, d, IdText) :
     rt \in {"POST /api/pushups", "POST /api/walks"}, s \in Sessions,
     v \in BodyValues, d \in BodyDates}
  \cup
  {Request(rt, s, JsUndefined, DateUndefined, id) :
     rt \in {"DELETE /api/pushups/:id", "DELETE /api/walks/:id"},
     s \in Sessions, id \in IdParams}

\* A response: the route that sent it, its status, the shape of its body
\* ("list", "entry", "success" for {success: true}, "message" for {message},
\* "text" for sendStatus) and the rows the body carries (the list of a GET,
\* the inserted row of a POST).
Response(route, status, body, rows) ==
  [route |-> route, status |-> status, body |-> body, rows |-> rows]

NoApiResponse == Response("none", 0, "none", {})

StoreInit ==
  /\ pushups = {}
  /\ walks = {}
  /\ pushupSeq = 0
  /\ walkSeq = 0
  /\ req = NoRequest
  /\ res = NoApiResponse
  /\ now = 0

\* ------------------------------------------------------------- entry store

SelectByUser_All(table, userId) == table

\* db.select().from(pushups).where(eq(pushups.userId, userId))
SelectByUser(table, userId) == {r \in table : r.userId = userId}

DeleteWhere_IgnoresId(table, id, userId) == {r \in table : r.userId # userId}
DeleteWhere_AnyOwner(table, id, userId) == {r \in table : r.id # id}

\* db.delete(t).where(and(eq(t.id, id), eq(t.userId, userId)))
DeleteWhere(table, id, userId) ==
  {r \in table : ~(r.id = id /\ r.userId = userId)}

InsertInto_ReplacesSameDay(table, entry) ==
  {r \in table : ~(r.userId = entry.userId /\ r.date = entry.date)} \cup {entry}

\* db.insert(t).values({..}).returning(): one row more, the others as they were
InsertInto(table, entry) == table \cup {entry}

\* if (!count || isNaN(count)) return res.status(400)
InvalidValue(x) == ~Truthy(x) \/ isNaN(x)

\* An integer column takes a whole number only; the driver sends 2.5 as the
\* text "2.5", which the database refuses.
IntegerColumnAccepts(n) == n % 10 = 0

\* new Date(date) is a valid Date (toISOString throws on an invalid one).
ValidDate(date) == date.t = "iso"

EntryDate_AlwaysNow(date, clock) == clock

\* date ? new Date(date) : new Date()
EntryDate(date, clock) == IF Truthy(date) THEN date.v ELSE clock

\* The insert throws: toISOString of an invalid Date, or the database refusing
\* a fractional value for an integer column.
PushupInsertThrows(count, date) ==
  \/ Truthy(date) /\ ~ValidDate(date)
  \/ ~IntegerColumnAccepts(Number(count))

WalkInsertThrows(miles, date) == Truthy(date) /\ ~ValidDate(date)

Budget == pushupSeq + walkSeq < MaxCreates

\* A request reaches the server; the handler of its route runs next.
Receive(request) ==
  /\ req = NoRequest
  /\ req' = request
  /\ res' = NoApiResponse
  /\ now' = 0
  /\ UNCHANGED <<pushups, walks, pushupSeq, walkSeq, formVars, clientVars>>

\* The handler is through: its response is out and no request is pending.
Reply(response) ==
  /\ res' = response
  /\ req' = NoRequest

GetPushups ==
  /\ req.route = "GET /api/pushups"
  /\ Reply(IF ~isAuthenticated(req.user)
             THEN Response(req.route, 401, "text", {})
             ELSE Response(req.route, 200, "list",
                           SelectByUser(pushups, req.user)))
  /\ UNCHANGED <<pushups, walks, pushupSeq, walkSeq, now, formVars, clientVars>>

GetWalks ==
  /\ req.route = "GET /api/walks"
  /\ Reply(IF ~isAuthenticated(req.user)
             THEN Response(req.route, 401, "text", {})
             ELSE Response(req.route, 200, "list",
                           SelectByUser(walks, req.user)))
  /\ UNCHANGED <<pushups, walks, pushupSeq, walkSeq, now, formVars, clientVars>>

\* The instants new Date() can return to a request that reads the clock; a
\* request that returns before that line reads nothing.
ClockReads(request) ==
  IF /\ isAuthenticated(request.user)
     /\ ~InvalidValue(request.value)
     /\ ~Truthy(request.date)
    THEN Times ELSE {0}

PostPushups(clock) ==
  LET count == req.value
      date == req.date
      entry == [id |-> pushupSeq + 1, userId |-> req.user,
                count |-> Number(count), date |-> EntryDate(date, clock)]
  IN /\ req.route = "POST /api/pushups"
     /\ now' = clock
     /\ IF ~isAuthenticated(req.user)
          THEN /\ Reply(Response(req.route, 401, "text", {}))
               /\ UNCHANGED <<pushups, pushupSeq>>
          ELSE IF InvalidValue(count)
          THEN /\ Reply(Response(req.route, 400, "message", {}))
               /\ UNCHANGED <<pushups, pushupSeq>>
          ELSE IF PushupInsertThrows(count, date)
          THEN /\ Reply(Response(req.route, 500, "message", {}))
               /\ UNCHANGED <<pushups, pushupSeq>>
          ELSE /\ Budget
               /\ pushups' = InsertInto(pushups, entry)
               /\ pushupSeq' = pushupSeq + 1
               /\ Reply(Response(req.route, 200, "entry", {entry}))
     /\ UNCHANGED <<walks, walkSeq, formVars, clientVars>>

PostWalks(clock) ==
  LET miles == req.value
      date == req.date
      entry == [id |-> walkSeq + 1, userId |-> req.user,
                miles |-> Number(miles), date |-> EntryDate(date, clock)]
  IN /\ req.route = "POST /api/walks"
     /\ now' = clock
     /\ IF ~isAuthenticated(req.user)
          THEN /\ Reply(Response(req.route, 401, "text", {}))
               /\ UNCHANGED <<walks, walkSeq>>
          ELSE IF InvalidValue(miles)
          THEN /\ Reply(Response(req.route, 400, "message", {}))
               /\ UNCHANGED <<walks, walkSeq>>
          ELSE IF WalkInsertThrows(miles, date)
          THEN /\ Reply(Response(req.route, 500, "message", {}))
               /\ UNCHANGED <<walks, walkSeq>>
          ELSE /\ Budget
               /\ walks' = InsertInto(walks, entry)
               /\ walkSeq' = walkSeq + 1
               /\ Reply(Response(req.route, 200, "entry", {entry}))
     /\ UNCHANGED <<pushups, pushupSeq, formVars, clientVars>>

DeletePushup ==
  /\ req.route = "DELETE /api/pushups/:id"
  /\ IF ~isAuthenticated(req.user)
       THEN /\ Reply(Response(req.route, 401, "text", {}))
            /\ UNCHANGED pushups
       ELSE IF parseIntIsNaN(req.id)
       THEN /\ Reply(Response(req.route, 500, "message", {}))
            /\ UNCHANGED pushups
       ELSE /\ pushups' = DeleteWhere(pushups, parseInt(req.id), req.user)
            /\ Reply(Response(req.route, 200, "success", {}))
  /\ UNCHANGED <<walks, pushupSeq, walkSeq, now, formVars, clientVars>>

DeleteWalk ==
  /\ req.route = "DELETE /api/walks/:id"
  /\ IF ~isAuthenticated(req.user)
       THEN /\ Reply(Response(req.route, 401, "text", {}))
            /\ UNCHANGED walks
       ELSE IF parseIntIsNaN(req.id)
       THEN /\ Reply(Response(req.route, 500, "message", {}))
            /\ UNCHANGED walks
       ELSE /\ walks' = DeleteWhere(walks, parseInt(req.id), req.user)
            /\ Reply(Response(req.route, 200, "success", {}))
  /\ UNCHANGED <<pushups, pushupSeq, walkSeq, now, formVars, clientVars>>

StoreNext ==
  \/ \E request \in ApiRequests : Receive(request)
  \/ GetPushups
  \/ GetWalks
  \/ \E c \in ClockReads(req) : PostPushups(c)
  \/ \E c \in ClockReads(req) : PostWalks(c)
  \/ DeletePushup
  \/ DeleteWalk

\* ------------------------------------------------------------- form check

\* Requests to /api/form-check in flight over a run.
NumRequests == 2
Requests == 1..NumRequests

\* Chunks of ffmpeg's standard error the handler collects per request.
MaxStderr == 1

allowedTypes == {"video/mp4", "video/quicktime"}
MimeTypes == allowedTypes \cup {"image/png"}

\* limits.fileSize, in bytes
fileSize == 50 * 1024 * 1024
\* a file at the limit, one byte over it, and twice the limit
FileSizes == {fileSize, fileSize + 1, 2 * fileSize}

\* The multipart body: no "video" field, or one file of a type and a size.
NoFile == [present |-> FALSE, mimetype |-> "", size |-> 0]
Uploads ==
  {NoFile} \cup
  {[present |-> TRUE, mimetype |-> m, size |-> n] : m \in MimeTypes, n \in FileSizes}

\* The bytes of the request body: the file's bytes and, after them, at least
\* the closing delimiter of the multipart body.
BodyLength(file) == file.size + 1

fileFilter_AcceptsAll(file) == TRUE

\* fileFilter: cb(null, true) for an allowed type, cb(new Error(..)) otherwise.
fileFilter(file) == file.mimetype \in allowedTypes

fileSizeExceeded_Never(file) == FALSE

\* limits: multer counts the file's bytes as they arrive and raises
\* LIMIT_FILE_SIZE at the first byte past fileSize.
fileSizeExceeded(file) == file.size > fileSize

\* The bytes of the file multer has taken from the stream when it hands the
\* request on: all of them, or those up to the byte that passed the limit.
StreamedBytes(file) ==
  IF fileSizeExceeded(file) THEN fileSize + 1 ELSE file.size

\* The status of the answer to an upload that multer refused; the error
\* middleware that sends it is registered outside routes.ts.
UploadErrorStatus == 400

FilePath_SameName(r) == <<"uploads/", 0, "">>

\* req.file.path: multer stores each upload under dest with a fresh random
\* name, here the request's own number.
FilePath(r) == <<"uploads/", r, "">>

\* const compressedPath = `${req.file.path}_compressed.mp4`
compressedPath(path) == <<path[1], path[2], "_compressed.mp4">>

ExitCodes == {0, 1}
StderrChunks == {"frame error"}
ModelTexts == {"", "feedback"}

NoResponse ==
  [status |-> 0, success |-> "absent", message |-> <<>>, analysis |-> "",
   error |-> <<>>]

\* res.status(status).json({success, message, analysis, error}); a key the
\* body does not carry is "absent" (success) or empty.
FormResponse(status, success, message, analysis, error) ==
  [status |-> status, success |-> success, message |-> message,
   analysis |-> analysis, error |-> error]

\* code is ffmpeg's exit code once it closed; steps is what the request has
\* done so far, in order.
NewRequest ==
  [pc |-> "new", authenticated |-> FALSE, file |-> NoFile, stored |-> FALSE,
   received |-> 0, errorOutput |-> <<>>, spawned |-> 0, code |-> -1,
   generateCalls |-> 0, steps |-> <<>>, response |-> NoResponse]

FormInit ==
  /\ apiKey \in BOOLEAN
  /\ disk = {}
  /\ fc = [r \in Requests |-> NewRequest]

CatchResponse_Generic(errorMessage) ==
  FormResponse(500, "false", <<"Internal server error during form check">>, "",
               <<"Unknown error">>)

\* The inner catch: 500 {success: false, message, error}
CatchResponse(errorMessage) ==
  FormResponse(500, "false", <<"Failed to process form check: ">> \o errorMessage,
               "", errorMessage)

\* The request's record once `response` is sent.
Answered(request, response) ==
  [request EXCEPT !.pc = "done", !.response = response,
                  !.steps = Append(@, "response")]

Respond(r, response) ==
  fc' = [fc EXCEPT ![r] = Answered(fc[r], response)]

\* upload.single("video"): multer runs before the handler, and so before its
\* authentication check. A refused file is not stored and the handler never
\* runs; a file over the limit is removed again by multer.
Upload(r, session, file) ==
  LET arrived == [fc[r] EXCEPT !.file = file,
                               !.authenticated = isAuthenticated(session),
                               !.received =
                                 IF file.present /\ fileFilter(file)
                                   THEN StreamedBytes(file) ELSE 0]
  IN /\ fc[r].pc = "new"
     /\ IF file.present /\ (~fileFilter(file) \/ fileSizeExceeded(file))
          THEN /\ fc' = [fc EXCEPT ![r] =
                           Answered(arrived,
                                    FormResponse(UploadErrorStatus, "absent",
                                                 <<"upload refused">>, "", <<>>))]
               /\ UNCHANGED disk
          ELSE /\ fc' = [fc EXCEPT ![r] = [arrived EXCEPT !.pc = "uploaded",
                                                          !.stored = file.present]]
               /\ disk' = IF file.present THEN disk \cup {FilePath(r)} ELSE disk
     /\ UNCHANGED <<apiKey, storeVars, clientVars>>

MissingFile_Never(file) == FALSE

\* if (!req.file)
MissingFile(file) == ~file.present

KeyMissing_Never(key) == FALSE

\* if (!apiKey)
KeyMissing(key) == ~key

\* The handler up to its first await on the transcoder: the checks of the
\* session, of req.file and of the API key, then spawn('ffmpeg', ..).
Handle(r) ==
  /\ fc[r].pc = "uploaded"
  /\ IF ~fc[r].authenticated
       THEN Respond(r, FormResponse(401, "absent", <<"Unauthorized">>, "", <<>>))
       ELSE IF MissingFile(fc[r].file)
       THEN Respond(r, FormResponse(400, "absent", <<"No video file uploaded">>,
                                    "", <<>>))
       ELSE IF KeyMissing(apiKey)
       THEN Respond(r, FormResponse(500, "absent",
                                    <<"Gemini API key not configured">>, "", <<>>))
       ELSE fc' = [fc EXCEPT ![r].pc = "transcoding",
                             ![r].spawned = fc[r].spawned + 1,
                             ![r].steps = Append(@, "spawn")]
  /\ UNCHANGED <<apiKey, disk, storeVars, clientVars>>

\* ffmpeg writes its output file (-y: overwriting one that exists).
FfmpegWrite(r) ==
  /\ fc[r].pc = "transcoding"
  /\ compressedPath(FilePath(r)) \notin disk
  /\ disk' = disk \cup {compressedPath(FilePath(r))}
  /\ UNCHANGED <<apiKey, fc, storeVars, clientVars>>

\* ffmpeg.stderr.on('data'): errorOutput += data.toString()
FfmpegStderr(r, data) ==
  /\ fc[r].pc = "transcoding"
  /\ Len(fc[r].errorOutput) < MaxStderr
  /\ fc' = [fc EXCEPT ![r].errorOutput = Append(fc[r].errorOutput, data)]
  /\ UNCHANGED <<apiKey, disk, storeVars, clientVars>>

\* ffmpeg cannot be started (no such binary): the child emits 'error', which
\* has no listener. The emit throws outside the handler's try, the process
\* ends on the uncaught exception or, where something keeps it alive, 'close'
\* never comes and the promise never settles: either way the handler does
\* not run again for this request.
FfmpegError(r) ==
  /\ fc[r].pc = "transcoding"
  /\ fc[r].errorOutput = <<>>
  /\ compressedPath(FilePath(r)) \notin disk
  /\ fc' = [fc EXCEPT ![r].pc = "abandoned",
                        ![r].steps = Append(@, "error")]
  /\ UNCHANGED <<apiKey, disk, storeVars, clientVars>>

Resolves_Always(code) == TRUE

\* if (code === 0) resolve()
Resolves(code) == code = 0

\* ffmpeg.on('close'): resolve() on code 0, and the handler goes on to read
\* the compressed file; reject(..) otherwise, which the inner catch answers.
\* errorOutput is a local of the promise's executor: once the promise has
\* resolved nothing can read it, and it is dropped.
FfmpegClose(r, code) ==
  LET closed == [fc[r] EXCEPT !.code = code,
                              !.steps = Append(@, IF code = 0 THEN "close 0"
                                                              ELSE "close non-zero")]
  IN /\ fc[r].pc = "transcoding"
     /\ IF Resolves(code)
          THEN fc' = [fc EXCEPT ![r] = [closed EXCEPT !.pc = "reading",
                                                      !.errorOutput = <<>>]]
          ELSE fc' = [fc EXCEPT ![r] =
                        Answered(closed,
                                 CatchResponse(<<"Failed to compress video: ">>
                                                 \o fc[r].errorOutput))]
     /\ UNCHANGED <<apiKey, disk, storeVars, clientVars>>

unlinkSync_Keeps(files, path) == files

\* The disk after fs.unlinkSync(path).
unlinkSync(files, path) == files \ {path}

\* await fs.promises.readFile(compressedPath); then unlinkSync(compressedPath)
\* and the call of model.generateContent. A failed read is answered by the
\* inner catch.
ReadFile(r, ok) ==
  /\ fc[r].pc = "reading"
  /\ IF ok
       THEN /\ compressedPath(FilePath(r)) \in disk
            /\ disk' = unlinkSync(disk, compressedPath(FilePath(r)))
            /\ fc' = [fc EXCEPT ![r].pc = "analyzing",
                                ![r].generateCalls = fc[r].generateCalls + 1,
                                ![r].steps = @ \o <<"readFile", "generateContent">>]
       ELSE /\ Respond(r, CatchResponse(<<"readFile failed">>))
            /\ UNCHANGED disk
  /\ UNCHANGED <<apiKey, storeVars, clientVars>>

\* generateContent returned and result.response.text() gave `text`: the
\* uploaded file is unlinked and the analysis sent.
GenerateReturns(r, text) ==
  LET returned == [fc[r] EXCEPT !.steps = Append(@, "text")]
  IN /\ fc[r].pc = "analyzing"
     /\ IF FilePath(r) \in disk
          THEN /\ disk' = unlinkSync(disk, FilePath(r))
               /\ fc' = [fc EXCEPT ![r] =
                           Answered(returned,
                                    FormResponse(200, "true", <<>>, text, <<>>))]
          ELSE /\ fc' = [fc EXCEPT ![r] =
                           Answered(returned, CatchResponse(<<"ENOENT">>))]
               /\ UNCHANGED disk
     /\ UNCHANGED <<apiKey, storeVars, clientVars>>

\* generateContent or result.response.text() threw.
GenerateThrows(r) ==
  /\ fc[r].pc = "analyzing"
  /\ fc' = [fc EXCEPT ![r] =
              Answered([fc[r] EXCEPT !.steps = Append(@, "throw")],
                       CatchResponse(<<"generateContent failed">>))]
  /\ UNCHANGED <<apiKey, disk, storeVars, clientVars>>

FormNext ==
  \/ \E r \in Requests, s \in Sessions, f \in Uploads : Upload(r, s, f)
  \/ \E r \in Requests : Handle(r)
  \/ \E r \in Requests : FfmpegError(r)
  \/ \E r \in Requests : FfmpegWrite(r)
  \/ \E r \in Requests, d \in StderrChunks : FfmpegStderr(r, d)
  \/ \E r \in Requests, c \in ExitCodes : FfmpegClose(r, c)
  \/ \E r \in Requests, ok \in BOOLEAN : ReadFile(r, ok)
  \/ \E r \in Requests, t \in ModelTexts : GenerateReturns(r, t)
  \/ \E r \in Requests : GenerateThrows(r)

\* Every step that belongs to request r once it has been uploaded.
RequestNext(r) ==
  \/ Handle(r)
  \/ FfmpegError(r)
  \/ FfmpegWrite(r)
  \/ \E d \in StderrChunks : FfmpegStderr(r, d)
  \/ \E c \in ExitCodes : FfmpegClose(r, c)
  \/ \E ok \in BOOLEAN : ReadFile(r, ok)
  \/ \E t \in ModelTexts : GenerateReturns(r, t)
  \/ GenerateThrows(r)

\* ------------------------------------------------------------ query client

\* The client's operations that go through queryClient: the queries of the
\* two lists and the mutations that add an entry.
Operations == {"query", "mutation"}

\* A value of the `retry` option: a boolean, or a number of retries.
RetryBoolean(b) == [type |-> "boolean", on |-> b, count |-> 0]
RetryNumber(n) == [type |-> "number", on |-> FALSE, count |-> n]

retry_Three(operation) == RetryNumber(3)

\* defaultOptions: queries: {retry: false}, mutations: {retry: false}
retry(operation) == RetryBoolean(FALSE)

\* Whether the library runs the function again after its failureCount-th
\* failure: retry === true, or a number that failureCount is still below.
shouldRetry(operation, failureCount) ==
  \/ retry(operation).type = "boolean" /\ retry(operation).on
  \/ retry(operation).type = "number" /\ failureCount < retry(operation).count

\* fetches counts the calls of queryFn or mutationFn for the operation.
NoQuery == [operation |-> "none", status |-> "idle", fetches |-> 0, failureCount |-> 0]

\* The page issues an operation: a component mounts or calls refetch() or
\* mutate(). The function is called once.
Fetch(operation) ==
  /\ query.status # "fetching"
  /\ query' = [operation |-> operation, status |-> "fetching", fetches |-> 1,
               failureCount |-> 0]
  /\ UNCHANGED <<entries, view, chart, stats, uiVars, storeVars, formVars>>

\* The function threw (queryFn throws on a status outside 200..299): the
\* library calls it again if shouldRetry says so, and reports the error
\* otherwise.
FetchFails ==
  /\ query.status = "fetching"
  /\ query' = IF shouldRetry(query.operation, query.failureCount)
                THEN [query EXCEPT !.failureCount = @ + 1, !.fetches = @ + 1]
                ELSE [query EXCEPT !.failureCount = @ + 1, !.status = "error"]
  /\ UNCHANGED <<entries, view, chart, stats, uiVars, storeVars, formVars>>

FetchSucceeds ==
  /\ query.status = "fetching"
  /\ query' = [query EXCEPT !.status = "success"]
  /\ UNCHANGED <<entries, view, chart, stats, uiVars, storeVars, formVars>>

QueryNext ==
  \/ \E operation \in Operations : Fetch(operation)
  \/ FetchFails
  \/ FetchSucceeds

\* ------------------------------------------------------------------ charts

\* Entries in the list the home page holds.
MaxEntries == 3

\* A date string as the server sends it, "2017-01-03T..", by its fields.
DateString(year, month, day) == [year |-> year, month |-> month, day |-> day]

\* The dates of the entries: a Tuesday, the Sunday after it and a Wednesday
\* four weeks on in 2017, and the same day of January in 2023 (1 January is
\* a Sunday in both years).
ChartDates ==
  {DateString(2017, 1, 3), DateString(2017, 1, 8), DateString(2017, 2, 1),
   DateString(2023, 1, 3)}
ChartCounts == {2, 5}
ChartEntries == {[count |-> c, date |-> d] : c \in ChartCounts, d \in ChartDates}
Views == {"daily", "weekly", "monthly"}

\* parseLocalDate: the local Date of the string's year, month and day.
parseLocalDate(dateString) ==
  [year |-> dateString.year, month |-> dateString.month, day |-> dateString.day]

\* The count of days from 1970-01-01 to the date: what getTime() orders by.
getTime(date) ==
  LET y == IF date.month <= 2 THEN date.year - 1 ELSE date.year
      era == y \div 400
      yoe == y - era * 400
      mp == IF date.month > 2 THEN date.month - 3 ELSE date.month + 9
      doy == (153 * mp + 2) \div 5 + date.day - 1
      doe == yoe * 365 + yoe \div 4 - yoe \div 100 + doy
  IN era * 146097 + doe - 719468

\* The Date that is `days` days after 1970-01-01.
DateOfDays(days) ==
  LET z == days + 719468
      era == z \div 146097
      doe == z - era * 146097
      yoe == (doe - doe \div 1460 + doe \div 36524 - doe \div 146096) \div 365
      doy == doe - (365 * yoe + yoe \div 4 - yoe \div 100)
      mp == (5 * doy + 2) \div 153
      month == IF mp < 10 THEN mp + 3 ELSE mp - 9
  IN [year |-> yoe + era * 400 + (IF month <= 2 THEN 1 ELSE 0),
      month |-> month,
      day |-> doy - (153 * mp + 2) \div 5 + 1]

\* date.getDay(): 0 for Sunday; 1970-01-01 was a Thursday.
getDay(date) == (getTime(date) + 4) % 7

\* date-fns startOfWeek(date): the Sunday on or before the date.
startOfWeek(date) == DateOfDays(getTime(date) - getDay(date))

\* date-fns startOfMonth(date)
startOfMonth(date) == [date EXCEPT !.day = 1]

\* date-fns format(date, pattern), for the patterns the home page uses: the
\* text holds the fields the pattern names and no other.
format(date, pattern) ==
  IF pattern = "MM/dd" THEN <<"MM/dd", date.month, date.day>>
  ELSE IF pattern = "yyyy-MM-dd"
    THEN <<"yyyy-MM-dd", date.year, date.month, date.day>>
  ELSE <<"MMM yyyy", date.month, date.year>>

\* sort's insertion of an entry behind those not later than it.
RECURSIVE InsertByTime(_, _)
InsertByTime(sorted, entry) ==
  IF sorted = <<>> THEN <<entry>>
  ELSE IF getTime(parseLocalDate(Head(sorted).date))
            <= getTime(parseLocalDate(entry.date))
  THEN <<Head(sorted)>> \o InsertByTime(Tail(sorted), entry)
  ELSE <<entry>> \o sorted

\* [...pushups].sort((a, b) => parseLocalDate(a.date).getTime() - ..): a
\* stable sort by date.
RECURSIVE sortedPushups(_)
sortedPushups(list) ==
  IF list = <<>> THEN <<>>
  ELSE InsertByTime(sortedPushups(SubSeq(list, 1, Len(list) - 1)),
                    list[Len(list)])

\* The key an entry is grouped under in a view.
ChartKey(entry, chartView) ==
  LET date == parseLocalDate(entry.date)
  IN IF chartView = "daily" THEN format(date, "MM/dd")
     ELSE IF chartView = "weekly" THEN format(startOfWeek(date), "MM/dd")
     ELSE format(startOfMonth(date), "MMM yyyy")

\* The reduce of either branch: the entry's count goes to the point that
\* has its key (acc.find, acc[key]), or to a new point behind the others.
RECURSIVE Reduce(_, _, _)
Reduce(acc, list, chartView) ==
  IF list = <<>> THEN acc
  ELSE LET entry == Head(list)
           key == ChartKey(entry, chartView)
           existing == {i \in 1..Len(acc) : acc[i].date = key}
       IN Reduce(IF existing # {}
                   THEN [i \in 1..Len(acc) |->
                           IF i \in existing
                             THEN [acc[i] EXCEPT !.count = @ + entry.count]
                             ELSE acc[i]]
                   ELSE Append(acc, [date |-> key, count |-> entry.count]),
                 Tail(list), chartView)

\* chartData: the points of the chart for a list and a view.
chartData(list, chartView) == Reduce(<<>>, sortedPushups(list), chartView)

\* Math.round of the quotient numerator / denominator (denominator > 0): the
\* nearest integer, a half going up.
Math_round_Floor(numerator, denominator) == numerator \div denominator

Math_round(numerator, denominator) ==
  (2 * numerator + denominator) \div (2 * denominator)

Math_max(a, b) == IF a >= b THEN a ELSE b

\* pushups.reduce((acc, entry) => acc + entry.count, 0)
RECURSIVE TotalOf(_)
TotalOf(list) ==
  IF list = <<>> THEN 0 ELSE Head(list).count + TotalOf(Tail(list))

\* [totalPushups, dailyPushupAverage]: the useMemo over the pushup list.
pushupStats(list) ==
  IF Len(list) = 0 THEN <<0, 0>>
  ELSE LET total == TotalOf(list)
           days == Cardinality({format(parseLocalDate(list[i].date), "yyyy-MM-dd") :
                                  i \in 1..Len(list)})
       IN <<total, Math_round(total, Math_max(days, 1))>>

\* The list query answers with one entry more (after an entry was added);
\* the rows come in no promised order, here the new one last.
Refetch(entry) ==
  /\ Len(entries) < MaxEntries
  /\ entries' = Append(entries, entry)
  /\ chart' = chartData(entries', view)
  /\ stats' = pushupStats(entries')
  /\ UNCHANGED <<view, query, uiVars, storeVars, formVars>>

\* setView(v): the buttons above the chart.
setView(chartView) ==
  /\ view' = chartView
  /\ chart' = chartData(entries, chartView)
  /\ UNCHANGED <<entries, query, stats, uiVars, storeVars, formVars>>

ChartNext ==
  \/ \E entry \in ChartEntries : Refetch(entry)
  \/ \E chartView \in Views : setView(chartView)

\* --------------------------------------------------------------- entry forms

\* Submissions one form sends over a run.
MaxSubmits == 2

JsNaN == [t |-> "NaN", v |-> 0]
\* the empty string
JsEmpty == [t |-> "empty", v |-> 0]

\* The two forms of the home page.
FormTypes == {"pushups", "walks"}

\* What a user leaves in the number input: nothing, "-1", "0", "2.5" or "3".
TypedTexts == {JsEmpty} \cup {JsNumeric(v) : v \in {-10, 0, 25, 30}}

\* parseInt(text) and parseFloat(text) of the input's text: NaN of the empty
\* text, else the number, for parseInt without its fraction.
Truncated(v) == IF v >= 0 THEN (v \div 10) * 10 ELSE 0 - (((0 - v) \div 10) * 10)
parseIntText(text) ==
  IF text.t \in {"empty", "NaN"} THEN JsNaN ELSE JsNumber(Truncated(text.v))
parseFloatText(text) ==
  IF text.t \in {"empty", "NaN"} THEN JsNaN ELSE JsNumber(text.v)

\* onChange={e => field.onChange(parseInt(e.target.value))}, parseFloat for miles
onChange(type, text) ==
  IF type = "pushups" THEN parseIntText(text) ELSE parseFloatText(text)

\* format(new Date(), "yyyy-MM-dd") on the day of the run, an earlier day
\* the user can pick, and the date input left empty.
Today == DateString(2017, 1, 8)
Earlier == DateString(2017, 1, 3)
DateEmpty == DateString(0, 0, 0)
FieldDates == {DateEmpty, Today, Earlier}

\* defaultValues of useForm
defaultValues == [value |-> JsUndefined, date |-> Today]

\* An entry form: the two fields, where its submission stands, the POSTs it
\* has sent, the body of the one in flight, the toasts shown since the last
\* press of the button, and what the last event on the form was.
NoBody == [value |-> JsUndefined, date |-> DateEmpty]
NewForm(type) ==
  [type |-> type, value |-> defaultValues.value, date |-> defaultValues.date,
   pc |-> "idle", posts |-> 0, body |-> NoBody, toasts |-> {}, event |-> "mount"]

\* data.count.toString() throws a TypeError on undefined.
toStringThrows(value) == value.t = "undefined"

\* parseInt(data.count.toString(), 10) / parseFloat(data.miles.toString())
Parsed(type, value) ==
  IF type = "pushups" THEN parseIntText(value) ELSE parseFloatText(value)

\* !isNaN(count) && count > 0
Submittable(parsed) == parsed.t # "NaN" /\ parsed.v > 0

\* The user edits a field.
TypeValue(text) ==
  /\ entryForm' = [entryForm EXCEPT !.value = onChange(entryForm.type, text),
                                    !.event = "typed"]
  /\ UNCHANGED <<preference, healthKit, healthSync, formCheck, swipe, entryList,
                 entries, view, chart, query, stats, storeVars, formVars>>

TypeDate(date) ==
  /\ entryForm' = [entryForm EXCEPT !.date = date, !.event = "typed"]
  /\ UNCHANGED <<preference, healthKit, healthSync, formCheck, swipe, entryList,
                 entries, view, chart, query, stats, storeVars, formVars>>

\* The submit button (disabled while the mutation is pending) and the
\* onSubmit handler up to its await.
Submit ==
  /\ entryForm.pc = "idle"
  /\ entryForm.posts < MaxSubmits
  /\ entryForm' =
       IF toStringThrows(entryForm.value)
         THEN [entryForm EXCEPT !.toasts = {}, !.event = "threw"]
       ELSE IF Submittable(Parsed(entryForm.type, entryForm.value))
         THEN [entryForm EXCEPT
                 !.pc = "posting", !.posts = @ + 1, !.toasts = {},
                 !.body = [value |-> Parsed(entryForm.type, entryForm.value),
                           date |-> IF entryForm.date # DateEmpty
                                      THEN entryForm.date ELSE Today],
                 !.event = "sent"]
       ELSE [entryForm EXCEPT !.toasts = {"Invalid input"}, !.event = "invalid"]
  /\ UNCHANGED <<preference, healthKit, healthSync, formCheck, swipe, entryList,
                 entries, view, chart, query, stats, storeVars, formVars>>

\* What the catch of onSubmit does to the fields: nothing. An earlier
\* revision reset both fields behind the try.
catchReset_Always(fields) == [value |-> JsNumber(0), date |-> Today]

catchReset(fields) == fields

\* The POST failed: onError and the catch of onSubmit.
PostFails ==
  /\ entryForm.pc = "posting"
  /\ LET fields == catchReset([value |-> entryForm.value, date |-> entryForm.date])
     IN entryForm' = [entryForm EXCEPT
                        !.pc = "idle", !.body = NoBody, !.toasts = @ \cup {"Error"},
                        !.value = fields.value, !.date = fields.date,
                        !.event = "error"]
  /\ UNCHANGED <<preference, healthKit, healthSync, formCheck, swipe, entryList,
                 entries, view, chart, query, stats, storeVars, formVars>>

\* The POST succeeded: onSuccess resets the form to '' and today; the walk
\* form's handler then resets it once more, the pushup form's first awaits
\* refetch().
PostSucceeds ==
  /\ entryForm.pc = "posting"
  /\ entryForm' =
       IF entryForm.type = "walks"
         THEN [entryForm EXCEPT
                 !.pc = "idle", !.body = NoBody, !.toasts = @ \cup {"Success!"},
                 !.value = JsUndefined, !.date = Today, !.event = "success"]
         ELSE [entryForm EXCEPT
                 !.pc = "refetching", !.toasts = @ \cup {"Success!"},
                 !.value = JsEmpty, !.date = Today, !.event = "onSuccess"]
  /\ UNCHANGED <<preference, healthKit, healthSync, formCheck, swipe, entryList,
                 entries, view, chart, query, stats, storeVars, formVars>>

\* refetch() has answered: the pushup form's handler shows its toast and
\* resets the form.
RefetchDone ==
  /\ entryForm.pc = "refetching"
  /\ entryForm' = [entryForm EXCEPT
                     !.pc = "idle", !.body = NoBody, !.toasts = @ \cup {"Success!"},
                     !.value = JsUndefined, !.date = Today, !.event = "success"]
  /\ UNCHANGED <<preference, healthKit, healthSync, formCheck, swipe, entryList,
                 entries, view, chart, query, stats, storeVars, formVars>>

EntryFormNext ==
  \/ \E text \in TypedTexts : TypeValue(text)
  \/ \E date \in FieldDates : TypeDate(date)
  \/ Submit
  \/ PostFails
  \/ PostSucceeds
  \/ RefetchDone

\* ------------------------------------------------------------- health sync

\* Entries added over a run whose health-store write is followed.
MaxSyncs == 2
Syncs == 1..MaxSyncs

\* Capacitor.getPlatform()
Platforms == {"ios", "android", "web"}

\* What Preferences holds under 'healthkit_auto_sync': null before the
\* first set, then 'true' or 'false'.
StoredValues == {"null", "true", "false"}

getAutoSyncEnabled_UnlessFalse(value) == value # "false"

\* getAutoSyncEnabled: value === 'true'; a failing Preferences.get is false.
getAutoSyncEnabled(value) == value = "true"

\* One addEntry / addWalkEntry mutation: the POST, whether the row it made
\* is there, what the flag held when onSuccess read it ("none" before, and
\* "threw" for a failing Preferences.get), where the write stands, the
\* saveSample calls made for it, and the toasts it has shown.
NewMutation ==
  [post |-> "idle", entry |-> FALSE, read |-> "none", stage |-> "none",
   saveSamples |-> 0, toasts |-> {}]

NewSync(platform) == [platform |-> platform, mutations |-> [i \in Syncs |-> NewMutation]]

\* HealthKitSettings once loadSyncState has run.
NewHealthKit(value) ==
  [autoSync |-> getAutoSyncEnabled(value), isConnecting |-> FALSE,
   pc |-> "idle", elapsed |-> 0, waited |-> 0, authorized |-> "none",
   toast |-> "none"]

\* addEntry.mutateAsync(submission)
Mutate(i) ==
  /\ healthSync.mutations[i].post = "idle"
  /\ healthSync' = [healthSync EXCEPT !.mutations[i].post = "pending"]
  /\ UNCHANGED <<entryForm, preference, healthKit, formCheck, swipe, entryList,
                 entries, view, chart, query, stats, storeVars, formVars>>

\* Capacitor.getPlatform() === 'ios'
IsIos(platform) == platform = "ios"

\* onSuccess: the toast, and on iOS the call of getAutoSyncEnabled().
MutationSucceeds(i) ==
  /\ healthSync.mutations[i].post = "pending"
  /\ healthSync' =
       [healthSync EXCEPT
          !.mutations[i].post = "success",
          !.mutations[i].entry = TRUE,
          !.mutations[i].toasts = @ \cup {"Success!"},
          !.mutations[i].stage = IF IsIos(healthSync.platform)
                                   THEN "reading" ELSE "none"]
  /\ UNCHANGED <<entryForm, preference, healthKit, formCheck, swipe, entryList,
                 entries, view, chart, query, stats, storeVars, formVars>>

\* onError: the toast and nothing else.
MutationFails(i) ==
  /\ healthSync.mutations[i].post = "pending"
  /\ healthSync' = [healthSync EXCEPT !.mutations[i].post = "error",
                                      !.mutations[i].toasts = @ \cup {"Error"}]
  /\ UNCHANGED <<entryForm, preference, healthKit, formCheck, swipe, entryList,
                 entries, view, chart, query, stats, storeVars, formVars>>

\* getAutoSyncEnabled() resolves: with what the store holds, or with false
\* when Preferences.get threw. The write is called when it is true.
ReadPreference(i, getThrows) ==
  LET enabled == ~getThrows /\ getAutoSyncEnabled(preference)
  IN /\ healthSync.mutations[i].stage = "reading"
     /\ healthSync' =
          [healthSync EXCEPT
             !.mutations[i].read = IF getThrows THEN "threw" ELSE preference,
             !.mutations[i].stage = IF enabled THEN "writing" ELSE "skipped"]
     /\ UNCHANGED <<entryForm, preference, healthKit, formCheck, swipe, entryList,
                    entries, view, chart, query, stats, storeVars, formVars>>

\* writePushupWorkout / writeWalkingDistance: off iOS or without the plugin
\* it returns at once; else it calls saveSample, which resolves or throws.
\* The caller shows a toast when the promise resolves and nothing when it
\* rejects.
WriteSample(i, pluginLoaded, saved) ==
  LET attempted == IsIos(healthSync.platform) /\ pluginLoaded
  IN /\ healthSync.mutations[i].stage = "writing"
     /\ healthSync' =
          [healthSync EXCEPT
             !.mutations[i].saveSamples = IF attempted THEN @ + 1 ELSE @,
             !.mutations[i].stage = IF ~attempted THEN "returned"
                                    ELSE IF saved THEN "written" ELSE "failed",
             !.mutations[i].toasts =
                IF attempted /\ ~saved THEN @ ELSE @ \cup {"Synced to Apple Health"}]
     /\ UNCHANGED <<entryForm, preference, healthKit, formCheck, swipe, entryList,
                    entries, view, chart, query, stats, storeVars, formVars>>

\* handleAutoSyncChange(enabled): the switch, shown once autoSync is true.
handleAutoSyncChange(enabled) ==
  /\ healthKit.autoSync
  /\ healthKit.pc \in {"idle", "done"}
  /\ enabled # healthKit.autoSync
  /\ healthKit' = [healthKit EXCEPT
                     !.autoSync = enabled, !.pc = "idle",
                     !.toast = IF enabled THEN "Auto-sync enabled"
                                          ELSE "Auto-sync disabled"]
  /\ preference' = IF enabled THEN "true" ELSE "false"
  /\ UNCHANGED <<entryForm, healthSync, formCheck, swipe, entryList,
                 entries, view, chart, query, stats, storeVars, formVars>>

\* setTimeout(() => reject(new Error('timeout')), 10000)
TimeoutMs == 10000

AfterRace_AuthorizedOnly(authorized) ==
  [toast |-> "Apple Health enabled", autoSync |-> authorized = "true",
   persist |-> authorized = "true"]

\* What handleConnectHealthKit does once the race has settled: each of the
\* three branches (authorized, not authorized, the catch) shows a toast,
\* calls setAutoSync(true) and awaits setAutoSyncEnabled(true).
AfterRace(authorized) ==
  [toast |-> IF authorized = "true" THEN "Connected to Apple Health"
                                    ELSE "Apple Health enabled",
   autoSync |-> TRUE, persist |-> TRUE]

\* The handler behind the race: the branch's state changes, then either the
\* await of the stored flag or, with nothing to store, the finally.
Settled(authorized) ==
  LET after == AfterRace(authorized)
  IN [healthKit EXCEPT
        !.authorized = authorized, !.waited = healthKit.elapsed,
        !.toast = after.toast, !.autoSync = after.autoSync,
        !.pc = IF after.persist THEN "persisting" ELSE "done",
        !.isConnecting = after.persist]

\* The Connect button, shown while autoSync is false and disabled while
\* isConnecting: handleConnectHealthKit up to its await on the race.
Connect ==
  /\ ~healthKit.autoSync
  /\ ~healthKit.isConnecting
  /\ healthKit' = [healthKit EXCEPT !.isConnecting = TRUE, !.pc = "racing",
                                    !.elapsed = 0, !.waited = 0,
                                    !.authorized = "none", !.toast = "none"]
  /\ UNCHANGED <<entryForm, preference, healthSync, formCheck, swipe, entryList,
                 entries, view, chart, query, stats, storeVars, formVars>>

\* A tenth of the timeout passes while the race is open.
Tick ==
  /\ healthKit.pc = "racing"
  /\ healthKit.elapsed < TimeoutMs
  /\ healthKit' = [healthKit EXCEPT !.elapsed = @ + TimeoutMs \div 10]
  /\ UNCHANGED <<entryForm, preference, healthSync, formCheck, swipe, entryList,
                 entries, view, chart, query, stats, storeVars, formVars>>

\* requestAuthorization() resolves first: true when the plugin's request
\* resolved, false when it threw or the plugin is missing (it never rejects).
AuthorizationSettles(granted) ==
  /\ healthKit.pc = "racing"
  /\ healthKit' = Settled(IF granted THEN "true" ELSE "false")
  /\ UNCHANGED <<entryForm, preference, healthSync, formCheck, swipe, entryList,
                 entries, view, chart, query, stats, storeVars, formVars>>

\* The timer rejects first: the catch.
TimerFires ==
  /\ healthKit.pc = "racing"
  /\ healthKit.elapsed = TimeoutMs
  /\ healthKit' = Settled("timeout")
  /\ UNCHANGED <<entryForm, preference, healthSync, formCheck, swipe, entryList,
                 entries, view, chart, query, stats, storeVars, formVars>>

\* setAutoSyncEnabled(true) resolves, and the finally runs.
PersistResolves ==
  /\ healthKit.pc = "persisting"
  /\ preference' = "true"
  /\ healthKit' = [healthKit EXCEPT !.pc = "done", !.isConnecting = FALSE]
  /\ UNCHANGED <<entryForm, healthSync, formCheck, swipe, entryList,
                 entries, view, chart, query, stats, storeVars, formVars>>

\* The steps of handleConnectHealthKit once it has been started.
ConnectStep ==
  \/ Tick
  \/ \E granted \in BOOLEAN : AuthorizationSettles(granted)
  \/ TimerFires
  \/ PersistResolves

HealthKitNext ==
  \/ Connect
  \/ ConnectStep
  \/ \E enabled \in BOOLEAN : handleAutoSyncChange(enabled)

SyncNext ==
  \/ \E i \in Syncs : Mutate(i)
  \/ \E i \in Syncs : MutationSucceeds(i)
  \/ \E i \in Syncs : MutationFails(i)
  \/ \E i \in Syncs, getThrows \in BOOLEAN : ReadPreference(i, getThrows)
  \/ \E i \in Syncs, pluginLoaded, saved \in BOOLEAN : WriteSample(i, pluginLoaded, saved)
  \/ \E enabled \in BOOLEAN : handleAutoSyncChange(enabled)

\* ------------------------------------------------------- form check client

\* Uploads one FormCheck component sends over a run.
MaxUploads == 3

\* How a fetch of /api/form-check can end for the component: the fetch
\* rejects, the status is outside 200..299, the body says success: false,
\* or it says success: true.
Outcomes == {"network exception", "HTTP error", "success:false", "success:true"}

\* The FormCheck component: its three states, the requests it has in
\* flight and has sent, the toast shown last and how its last request ended.
NewFormCheck ==
  [isAnalyzing |-> FALSE, feedback |-> "null", videoPreview |-> NoFile,
   inFlight |-> 0, sent |-> 0, toast |-> "none", description |-> "none",
   outcome |-> "none"]

\* The error field of a body with success: false: absent, or a text.
ErrorTexts == {"", "error details"}

\* The message of the Error the catch receives: the fetch's own for a
\* rejected fetch, data.error || 'Failed to analyze video' for success:
\* false, and 'Failed to analyze video' for a status outside 200..299.
ErrorMessage(outcome, error) ==
  IF outcome = "network exception" THEN "Failed to fetch"
  ELSE IF outcome = "success:false" /\ error # "" THEN error
  ELSE "Failed to analyze video"

\* !file.type.includes('video/')
IsVideoType(file) == file.mimetype \in {"video/mp4", "video/quicktime"}

\* file.size > 50 * 1024 * 1024
TooLarge(file) == file.size > 50 * 1024 * 1024

\* <input type="file" disabled={isAnalyzing}>
inputDisabled(isAnalyzing) == isAnalyzing

\* handleVideoUpload up to its await on fetch: the checks of the chosen
\* file, then the preview, isAnalyzing, the cleared feedback and the request.
handleVideoUpload(file) ==
  /\ ~inputDisabled(formCheck.isAnalyzing)
  /\ formCheck.sent < MaxUploads
  /\ formCheck' =
       IF ~file.present THEN formCheck
       ELSE IF ~IsVideoType(file)
         THEN [formCheck EXCEPT !.toast = "Invalid file type",
                                !.description = "Please upload a video file"]
       ELSE IF TooLarge(file)
         THEN [formCheck EXCEPT
                 !.toast = "File too large",
                 !.description = "Please upload a video smaller than 50MB"]
       ELSE [formCheck EXCEPT
               !.videoPreview = file, !.isAnalyzing = TRUE, !.feedback = "null",
               !.inFlight = @ + 1, !.sent = @ + 1, !.outcome = "none"]
  /\ UNCHANGED <<entryForm, preference, healthSync, healthKit, swipe, entryList,
                 entries, view, chart, query, stats, storeVars, formVars>>

finally_Nothing(component) == component

\* finally { setIsAnalyzing(false) }
finally(component) == [component EXCEPT !.isAnalyzing = FALSE]

\* The request ends: setFeedback(data.analysis) and a toast for a body with
\* success: true, the catch's toast for every other end, then the finally.
UploadEnds(outcome, analysis, error) ==
  /\ formCheck.inFlight > 0
  /\ formCheck' =
       finally(IF outcome = "success:true"
                 THEN [formCheck EXCEPT
                         !.inFlight = @ - 1, !.outcome = outcome,
                         !.feedback = analysis, !.toast = "Analysis complete",
                         !.description = "Check out your form feedback below"]
                 ELSE [formCheck EXCEPT
                         !.inFlight = @ - 1, !.outcome = outcome,
                         !.toast = "Error",
                         !.description = ErrorMessage(outcome, error)])
  /\ UNCHANGED <<entryForm, preference, healthSync, healthKit, swipe, entryList,
                 entries, view, chart, query, stats, storeVars, formVars>>

FormCheckNext ==
  \/ \E file \in Uploads : handleVideoUpload(file)
  \/ \E outcome \in Outcomes, analysis \in ModelTexts, error \in ErrorTexts :
       UploadEnds(outcome, analysis, error)

\* -------------------------------------------------------------- entry list

\* clientX and clientY of a touch, in pixels.
TouchXs == {0, 20, 59, 60, 94, 95, 100, 150}
TouchYs == {0, 9, 10}

Math_min(a, b) == IF a <= b THEN a ELSE b

Math_abs(a) == IF a >= 0 THEN a ELSE 0 - a

\* A SwipeableEntry: offsetX, isSwiping, the refs startX and startY, and
\* the touch event handled last with the offsetX it found.
NoTouch == [kind |-> "none", x |-> 0, y |-> 0, before |-> 0]
NewSwipe ==
  [offsetX |-> 0, isSwiping |-> FALSE, startX |-> 0, startY |-> 0,
   event |-> NoTouch]

handleTouchStart(x, y) ==
  /\ swipe' = [swipe EXCEPT
                 !.startX = x, !.startY = y, !.isSwiping = FALSE,
                 !.event = [kind |-> "start", x |-> x, y |-> y,
                            before |-> swipe.offsetX]]
  /\ UNCHANGED <<entryForm, preference, healthSync, healthKit, formCheck, entryList,
                 entries, view, chart, query, stats, storeVars, formVars>>

SwipeOffset_Unclamped(diffX) == diffX

\* Math.min(diffX, 80)
SwipeOffset(diffX) == Math_min(diffX, 80)

handleTouchMove(x, y) ==
  LET diffX == swipe.startX - x
      diffY == Math_abs(swipe.startY - y)
      touch == [kind |-> "move", x |-> x, y |-> y, before |-> swipe.offsetX]
  IN /\ swipe.event.kind \in {"start", "move"}
     /\ swipe' =
          IF diffY < 10 /\ diffX > 5
            THEN [swipe EXCEPT
                    !.isSwiping = TRUE,
                    !.offsetX = IF diffX > 0
                                  THEN SwipeOffset(diffX)
                                  ELSE Math_max(0, swipe.offsetX + diffX),
                    !.event = touch]
            ELSE [swipe EXCEPT !.event = touch]
     /\ UNCHANGED <<entryForm, preference, healthSync, healthKit, formCheck, entryList,
                    entries, view, chart, query, stats, storeVars, formVars>>

handleTouchEnd ==
  /\ swipe.event.kind \in {"start", "move"}
  /\ swipe' = [swipe EXCEPT
                 !.offsetX = IF swipe.offsetX > 40 THEN 80 ELSE 0,
                 !.isSwiping = FALSE,
                 !.event = [kind |-> "end", x |-> 0, y |-> 0,
                            before |-> swipe.offsetX]]
  /\ UNCHANGED <<entryForm, preference, healthSync, healthKit, formCheck, entryList,
                 entries, view, chart, query, stats, storeVars, formVars>>

SwipeNext ==
  \/ \E x \in TouchXs, y \in TouchYs : handleTouchStart(x, y)
  \/ \E x \in TouchXs, y \in TouchYs : handleTouchMove(x, y)
  \/ handleTouchEnd

\* Entries one list is given over a run.
MaxListed == 6

\* The dates of the listed entries.
ListDates == {DateString(2017, 1, 3), DateString(2017, 1, 8), DateString(2023, 1, 3)}

compare_Ascending(a, b) == getTime(a.date) - getTime(b.date)

\* (a, b) => new Date(b.date).getTime() - new Date(a.date).getTime()
compare(a, b) == getTime(b.date) - getTime(a.date)

\* Array.prototype.sort with that comparator: stable, so an entry goes
\* behind those the comparator does not put after it.
RECURSIVE InsertSorted(_, _)
InsertSorted(sorted, entry) ==
  IF sorted = <<>> THEN <<entry>>
  ELSE IF compare(Head(sorted), entry) <= 0
    THEN <<Head(sorted)>> \o InsertSorted(Tail(sorted), entry)
    ELSE <<entry>> \o sorted

RECURSIVE SortFrom(_, _)
SortFrom(sorted, list) ==
  IF list = <<>> THEN sorted
  ELSE SortFrom(InsertSorted(sorted, Head(list)), Tail(list))

sortedEntries(list) == SortFrom(<<>>, list)

\* sortedEntries.slice(0, 5)
Slice5(list) == SubSeq(list, 1, Math_min(5, Len(list)))

\* What EntryList returns: null for an empty list, else the card with
\* displayedEntries as its rows and, above five entries, the toggle button.
Render(list, isExpanded) ==
  IF Len(list) = 0
    THEN [card |-> FALSE, rows |-> <<>>, button |-> FALSE]
    ELSE [card |-> TRUE,
          rows |-> IF isExpanded THEN sortedEntries(list)
                                 ELSE Slice5(sortedEntries(list)),
          button |-> Len(list) > 5]

\* An EntryList: its entries prop ([id, date], in the order the server sent
\* them), the ids handed out so far, isExpanded and what it renders.
NewEntryList ==
  [entries |-> <<>>, ids |-> 0, isExpanded |-> FALSE,
   rendered |-> Render(<<>>, FALSE)]

\* The list query brings one entry more.
EntryListed(date) ==
  /\ entryList.ids < MaxListed
  /\ LET list == Append(entryList.entries,
                        [id |-> entryList.ids + 1, date |-> date])
     IN entryList' = [entryList EXCEPT
                        !.entries = list, !.ids = @ + 1,
                        !.rendered = Render(list, entryList.isExpanded)]
  /\ UNCHANGED <<entryForm, preference, healthSync, healthKit, formCheck, swipe,
                 entries, view, chart, query, stats, storeVars, formVars>>

\* An entry was deleted and the list query answers without it.
EntryUnlisted(i) ==
  /\ i \in 1..Len(entryList.entries)
  /\ LET list == SubSeq(entryList.entries, 1, i - 1)
                   \o SubSeq(entryList.entries, i + 1, Len(entryList.entries))
     IN entryList' = [entryList EXCEPT
                        !.entries = list,
                        !.rendered = Render(list, entryList.isExpanded)]
  /\ UNCHANGED <<entryForm, preference, healthSync, healthKit, formCheck, swipe,
                 entries, view, chart, query, stats, storeVars, formVars>>

\* The toggle button: setIsExpanded(!isExpanded)
ToggleExpanded ==
  /\ entryList.rendered.button
  /\ entryList' = [entryList EXCEPT
                     !.isExpanded = ~entryList.isExpanded,
                     !.rendered = Render(entryList.entries, ~entryList.isExpanded)]
  /\ UNCHANGED <<entryForm, preference, healthSync, healthKit, formCheck, swipe,
                 entries, view, chart, query, stats, storeVars, formVars>>

EntryListNext ==
  \/ \E date \in ListDates : EntryListed(date)
  \/ \E i \in 1..MaxListed : EntryUnlisted(i)
  \/ ToggleExpanded

\* ---------------------------------------------------------- specifications

\* The home page before its first query has answered: no entries (the default
\* of `data`), the daily view, an empty chart, nothing in flight.
ClientInit ==
  /\ entries = <<>>
  /\ view = "daily"
  /\ chart = <<>>
  /\ query = NoQuery
  /\ stats = pushupStats(<<>>)

\* The other components as they mount; of the two entry forms, the pushup
\* form is the one followed where a specification leaves the forms alone.
ComponentsInit ==
  /\ preference = "null"
  /\ healthSync = NewSync("ios")
  /\ healthKit = NewHealthKit(preference)
  /\ formCheck = NewFormCheck
  /\ swipe = NewSwipe
  /\ entryList = NewEntryList

UiInit == entryForm = NewForm("pushups") /\ ComponentsInit

Init == StoreInit /\ FormInit /\ ClientInit /\ UiInit

\* The entry store alone; it reads no environment variable, so one
\* environment stands for both.
StoreSpecInit == Init /\ apiKey = TRUE
StoreSpec == StoreSpecInit /\ [][StoreNext]_vars

\* The form-check pipeline alone.
FormSpec == Init /\ [][FormNext]_vars

\* The form-check pipeline with the client's queries and mutations beside it.
RetryNext == FormNext \/ QueryNext
RetrySpec == Init /\ [][RetryNext]_vars

\* The home page's charts alone.
ChartSpec == StoreSpecInit /\ [][ChartNext]_vars

\* The mutations that add entries and the health-store writes behind them,
\* on any platform and with any stored flag.
SyncInit ==
  /\ StoreInit /\ FormInit /\ apiKey = TRUE /\ ClientInit
  /\ entryForm = NewForm("pushups")
  /\ formCheck = NewFormCheck /\ swipe = NewSwipe /\ entryList = NewEntryList
  /\ preference \in StoredValues
  /\ healthSync \in {NewSync(platform) : platform \in Platforms}
  /\ healthKit = NewHealthKit(preference)
SyncSpec == SyncInit /\ [][SyncNext]_vars

\* The HealthKit settings card on iOS, with any stored flag.
HealthKitInit ==
  /\ StoreInit /\ FormInit /\ apiKey = TRUE /\ ClientInit
  /\ entryForm = NewForm("pushups")
  /\ formCheck = NewFormCheck /\ swipe = NewSwipe /\ entryList = NewEntryList
  /\ preference \in StoredValues
  /\ healthSync = NewSync("ios")
  /\ healthKit = NewHealthKit(preference)
HealthKitSpec == HealthKitInit /\ [][HealthKitNext]_vars

\* One FormCheck component.
FormCheckSpec == StoreSpecInit /\ [][FormCheckNext]_vars

\* One row of an entry list under touch events.
SwipeSpec == StoreSpecInit /\ [][SwipeNext]_vars

\* One entry list as entries come and go.
EntryListSpec == StoreSpecInit /\ [][EntryListNext]_vars

\* One entry form of the home page.
EntryFormInit ==
  /\ StoreInit /\ FormInit /\ apiKey = TRUE /\ ClientInit /\ ComponentsInit
  /\ entryForm \in {NewForm(type) : type \in FormTypes}
EntryFormSpec == EntryFormInit /\ [][EntryFormNext]_vars

Next == StoreNext \/ FormNext \/ QueryNext \/ ChartNext

Spec == Init /\ [][Next]_vars

\* ------------------------------------------------------------------ claims

\* What a claim calls a value: a number or a string spelling one.
IsNumeric(x) == x.t \in {"number", "numeric-string"}
\* A whole number of pushups greater than 0.
ValidCount(x) == IsNumeric(x) /\ x.v > 0 /\ x.v % 10 = 0
\* A date field that is absent or holds a date.
UsableDate(d) == d.t \in {"undefined", "iso"}
SourceOnDisk(r) == FilePath(r) \in disk
CompressedOnDisk(r) == <<"uploads/", r, "_compressed.mp4">> \in disk

\* C1: once a form-check request whose upload was stored has been answered,
\* neither its uploaded file nor its transcoded file exists on disk,
\* whatever the outcome.
C1_NoFileAtResponse ==
  \A r \in Requests :
    fc[r].pc = "done" /\ fc[r].stored
      => ~SourceOnDisk(r) /\ ~CompressedOnDisk(r)

\* C2: after an answer {success: true, analysis}, the request's uploaded
\* file and its transcoded file are both gone from the disk.
C2_SuccessLeavesNoFile ==
  \A r \in Requests :
    fc[r].response.success = "true"
      => ~SourceOnDisk(r) /\ ~CompressedOnDisk(r)

\* A request has succeeded while the other's files are still on disk.
C2_Witness ==
  \E r, q \in Requests :
    /\ fc[r].response.success = "true" /\ fc[r].stored
    /\ q # r /\ SourceOnDisk(q) /\ CompressedOnDisk(q)

\* C3: a POST /api/pushups whose count is non-numeric, zero or negative is
\* answered 400 and leaves the stored pushup rows as they were (stated for
\* an authenticated caller and a date that is absent or parses).
C3_BadCountRejected ==
  [][(/\ req.route = "POST /api/pushups"
      /\ req.user \in Users
      /\ UsableDate(req.date)
      /\ (~IsNumeric(req.value) \/ req.value.v <= 0))
       => res'.status = 400 /\ pushups' = pushups]_vars

\* C4: every stored pushup row has count > 0 and every stored walk row has
\* miles > 0.
C4_StoredValuesPositive ==
  /\ \A e \in pushups : e.count > 0
  /\ \A e \in walks : e.miles > 0

\* C5: an authenticated POST /api/pushups with a whole count > 0 (and a
\* date that is absent or parses) adds exactly one row, whose count is the
\* submitted value, whose userId is the caller's id and whose date is the
\* submitted date, or the clock's instant when the date is absent; the
\* answer is 200 with that row.
C5_CreateStoresSubmitted ==
  [][(/\ req.route = "POST /api/pushups"
      /\ req.user \in Users
      /\ ValidCount(req.value) /\ UsableDate(req.date))
       => \E e \in pushups' :
            /\ e \notin pushups
            /\ pushups' = pushups \cup {e}
            /\ e.count = req.value.v
            /\ e.userId = req.user
            /\ IF req.date.t = "iso"
                 THEN e.date = req.date.v
                 ELSE e.date = now' /\ now' \in Times
            /\ res'.status = 200
            /\ res'.rows = {e}]_vars

\* A row dated by the request and a row dated by the clock, at different
\* instants, both answered for.
C5_Witness ==
  /\ res.route = "POST /api/pushups" /\ res.status = 200
  /\ \E e \in pushups : e.date = 1 /\ e.count = 20
  /\ \E e \in pushups : e.date = 2 /\ e.count = 20

\* C6: a DELETE of /api/pushups/<id> or /api/walks/<id> by an authenticated
\* caller, <id> being a number, removes exactly the rows with that id the
\* caller owns, keeps every other row, and answers 200 {success: true}
\* whether or not a row was removed.
C6_DeleteOwnRowOnly ==
  [][req.user \in Users /\ req.id.t = "digits"
       => /\ req.route = "DELETE /api/pushups/:id"
               => /\ pushups' =
                       {e \in pushups : ~(e.id = req.id.v /\ e.userId = req.user)}
                  /\ walks' = walks
                  /\ res'.status = 200 /\ res'.body = "success"
          /\ req.route = "DELETE /api/walks/:id"
               => /\ walks' =
                       {e \in walks : ~(e.id = req.id.v /\ e.userId = req.user)}
                  /\ pushups' = pushups
                  /\ res'.status = 200 /\ res'.body = "success"]_vars

\* A delete was answered after one of two pushup rows went; the row that
\* stayed is another user's.
C6_Witness ==
  /\ res.route = "DELETE /api/pushups/:id" /\ res.status = 200
  /\ pushupSeq = 2
  /\ \E e \in pushups : pushups = {e} /\ e.userId = 2

\* C7: GET /api/pushups and GET /api/walks answer an authenticated caller
\* with exactly the stored rows whose userId is the caller's id.
C7_ListIsCallersRows ==
  [][req.user \in Users
       => /\ req.route = "GET /api/pushups"
               => /\ res'.status = 200
                  /\ res'.rows = {e \in pushups : e.userId = req.user}
          /\ req.route = "GET /api/walks"
               => /\ res'.status = 200
                  /\ res'.rows = {e \in walks : e.userId = req.user}]_vars

\* A list was answered with some, not all, of the stored pushup rows.
C7_Witness ==
  /\ res.route = "GET /api/pushups" /\ res.status = 200
  /\ res.rows # {} /\ res.rows # pushups

\* What a list request of user b returns.
ListOf(table, b) == {e \in table : e.userId = b}

\* C8: no request of a user a changes what a list request of another user b
\* returns; so after any sequence of requests of a, b's lists are what they
\* were before it.
C8_NonInterference ==
  [][\A b \in Users :
       req.route # "none" /\ req.user \in Users /\ req.user # b
         => /\ ListOf(pushups', b) = ListOf(pushups, b)
            /\ ListOf(walks', b) = ListOf(walks, b)]_vars

\* User 1 was just answered a create while user 2 holds a row.
C8_Witness ==
  /\ res.route = "POST /api/walks" /\ res.status = 200
  /\ \A e \in res.rows : e.userId = 1
  /\ \E e \in walks : e.userId = 2

\* C9: a GET, POST or DELETE on /api/pushups or /api/walks without an
\* authenticated session is answered 401 and changes no stored row.
C9_AnonymousRefused ==
  [][req.route # "none" /\ req.user \notin Users
       => res'.status = 401 /\ pushups' = pushups /\ walks' = walks]_vars

\* A 401 was answered while rows of both tables are stored.
C9_Witness ==
  res.status = 401 /\ pushups # {} /\ walks # {}

C12_NoFileRefused ==
  \A r \in Requests :
    fc[r].pc # "new" /\ fc[r].authenticated /\ ~fc[r].file.present
      => /\ fc[r].spawned = 0
         /\ fc[r].generateCalls = 0
         /\ fc[r].pc = "done" => fc[r].response.status = 400

\* With the API key set, a request without a file was answered while another
\* request waits for the remote model.
C12_Witness ==
  \E r, q \in Requests :
    /\ apiKey
    /\ fc[r].pc = "done" /\ fc[r].authenticated /\ ~fc[r].file.present
    /\ fc[q].pc = "analyzing"

\* s occurs in t as a run of consecutive elements.
IsInfix(s, t) ==
  \E i \in 0..(Len(t) - Len(s)) : SubSeq(t, i + 1, i + Len(s)) = s

\* C13: when ffmpeg exits with a non-zero code the request is answered 500
\* with {success: false, message, error}, the message holds the text
\* collected from ffmpeg's standard error, and the remote model is never
\* called for the request.
C13_TranscoderFailure ==
  \A r \in Requests :
    fc[r].code \notin {-1, 0}
      => /\ fc[r].pc = "done"
         /\ fc[r].response.status = 500
         /\ fc[r].response.success = "false"
         /\ fc[r].response.message # <<>>
         /\ fc[r].response.error # <<>>
         /\ IsInfix(fc[r].errorOutput, fc[r].response.message)
         /\ fc[r].generateCalls = 0

\* ffmpeg wrote to its standard error and exited with code 1.
C13_Witness ==
  \E r \in Requests :
    /\ fc[r].code = 1 /\ fc[r].errorOutput = <<"frame error">>
    /\ fc[r].pc = "done"

\* C14: with the API key unset, an authenticated request that carries a
\* video is answered 500, and no request starts the transcoder or calls the
\* remote model.
C14_MissingKey ==
  ~apiKey
    => \A r \in Requests :
         /\ fc[r].spawned = 0
         /\ fc[r].generateCalls = 0
         /\ fc[r].steps \in {<<>>, <<"response">>}
         /\ fc[r].pc = "done" /\ fc[r].authenticated /\ fc[r].stored
              => fc[r].response.status = 500

\* Without the key, an authenticated request with a stored video was answered.
C14_Witness ==
  \E r \in Requests :
    /\ ~apiKey
    /\ fc[r].pc = "done" /\ fc[r].authenticated /\ fc[r].stored
    /\ fc[r].response.status = 500

\* C15: a remote call that throws or returns empty text is answered 500
\* with {success: false, message, error}; {success: true} is sent only with
\* a non-empty analysis.
C15_ModelFailureRefused ==
  \A r \in Requests :
    /\ fc[r].pc = "done" /\ fc[r].generateCalls > 0 /\ fc[r].response.analysis = ""
         => fc[r].response.status = 500 /\ fc[r].response.success = "false"
    /\ fc[r].response.success = "true" => fc[r].response.analysis # ""

\* s is among the first n elements of steps.
Occurs(steps, s, n) == \E i \in 1..n : steps[i] = s

\* After the first n steps ffmpeg is running: spawned and not yet closed.
Running(steps, n) ==
  /\ Occurs(steps, "spawn", n)
  /\ ~Occurs(steps, "close 0", n) /\ ~Occurs(steps, "close non-zero", n)

\* After the first n steps the remote call is pending.
Pending(steps, n) ==
  /\ Occurs(steps, "generateContent", n)
  /\ ~Occurs(steps, "text", n) /\ ~Occurs(steps, "throw", n)

\* C16: a request's steps come in the order spawn, close, readFile,
\* generateContent, response: the compressed file is read and the remote
\* model called only after ffmpeg closed with code 0, and the response is
\* the last step, sent neither while ffmpeg runs nor while the remote call
\* is pending.
C16_StepOrder ==
  \A r \in Requests :
    LET steps == fc[r].steps
    IN /\ \A i \in 1..Len(steps) :
            /\ steps[i] \in {"close 0", "close non-zero"}
                 => Occurs(steps, "spawn", i - 1)
            /\ steps[i] = "readFile"
                 => /\ Occurs(steps, "close 0", i - 1)
                    /\ ~Occurs(steps, "close non-zero", i - 1)
            /\ steps[i] = "generateContent"
                 => /\ Occurs(steps, "readFile", i - 1)
                    /\ Occurs(steps, "close 0", i - 1)
                    /\ ~Occurs(steps, "close non-zero", i - 1)
            /\ steps[i] = "response"
                 => /\ i = Len(steps)
                    /\ ~Running(steps, i - 1)
                    /\ ~Pending(steps, i - 1)
       /\ fc[r].response # NoResponse <=> fc[r].pc = "done"
       /\ fc[r].pc = "done" <=> Occurs(steps, "response", Len(steps))
       /\ fc[r].response.success = "true"
            => steps = <<"spawn", "close 0", "readFile", "generateContent",
                         "text", "response">>

\* A request went through all the steps while the other's ffmpeg runs.
C16_Witness ==
  \E r, q \in Requests :
    /\ fc[r].response.success = "true"
    /\ Running(fc[q].steps, Len(fc[q].steps))

PathsOf(r) == {FilePath(r), compressedPath(FilePath(r))}

\* C18: the uploaded and the compressed paths of two requests are pairwise
\* distinct, and whatever the interleaving a request's files are on disk
\* exactly as its own progress says: its upload from the moment it is
\* stored until its own success, its compressed file only between its own
\* ffmpeg and its own read. So no request's unlink finds its file taken by
\* another, and its answer is the one it gets when run alone.
C18_RequestsKeepApart ==
  /\ \A r, q \in Requests : r # q => PathsOf(r) \cap PathsOf(q) = {}
  /\ \A r \in Requests :
       /\ FilePath(r) # compressedPath(FilePath(r))
       /\ SourceOnDisk(r) <=> fc[r].stored /\ fc[r].response.success # "true"
       /\ CompressedOnDisk(r) => fc[r].spawned = 1 /\ fc[r].generateCalls = 0
       /\ fc[r].pc = "analyzing" => SourceOnDisk(r)
       /\ fc[r].response.error # <<"ENOENT">>

\* A request succeeded while the other, past its own ffmpeg, still has both
\* its files on disk.
C18_Witness ==
  \E r, q \in Requests :
    /\ r # q
    /\ fc[r].response.success = "true"
    /\ fc[q].pc = "reading" /\ SourceOnDisk(q) /\ CompressedOnDisk(q)

\* C17: within one form-check request ffmpeg is started at most once and
\* the remote model called at most once, whatever failed; and the client
\* calls the function of a query or mutation once per operation, a failed
\* one being reported and not run again.
C17_NoRetry ==
  /\ \A r \in Requests :
       /\ fc[r].spawned <= 1
       /\ fc[r].generateCalls <= 1
       /\ Cardinality({i \in 1..Len(fc[r].steps) :
                         fc[r].steps[i] \in {"spawn", "generateContent"}}) <= 2
       /\ Cardinality({i \in 1..Len(fc[r].steps) :
                         fc[r].steps[i] = "response"}) <= 1
  /\ query.fetches <= 1
  /\ query.status = "error" => query.fetches = 1 /\ query.failureCount = 1

\* A mutation has failed on the client, and on the server one request failed
\* in ffmpeg and another in the remote call.
C17_Witness ==
  /\ query.status = "error" /\ query.operation = "mutation"
  /\ \E r, q \in Requests :
       /\ fc[r].pc = "done" /\ fc[r].code = 1
       /\ fc[q].pc = "done" /\ fc[q].generateCalls = 1
       /\ fc[q].response.status = 500

\* The sum of the counts of the entries of a list that fall in bucket b.
RECURSIVE SumIn(_, _, _)
SumIn(list, b, chartView) ==
  IF list = <<>> THEN 0
  ELSE (IF chartView = "any" \/ b = (IF chartView = "daily" THEN Head(list).date
                                     ELSE IF chartView = "weekly"
                                     THEN startOfWeek(Head(list).date)
                                     ELSE startOfMonth(Head(list).date))
          THEN Head(list).count ELSE 0)
       + SumIn(Tail(list), b, chartView)

RECURSIVE SumOfPoints(_)
SumOfPoints(points) ==
  IF points = <<>> THEN 0 ELSE Head(points).count + SumOfPoints(Tail(points))

\* The calendar days that have an entry.
DaysOf(list) == {list[i].date : i \in 1..Len(list)}

\* C19: in the daily view the chart has exactly one point per calendar day
\* that has an entry, the point's value is the sum of that day's entries,
\* and the points come in ascending order of their days.
C19_DailyPoints ==
  view = "daily"
    => /\ Len(chart) = Cardinality(DaysOf(entries))
       /\ \E day \in [1..Len(chart) -> DaysOf(entries) \cup {DateString(0, 0, 0)}] :
            /\ \A i \in 1..Len(chart) :
                 /\ day[i] \in DaysOf(entries)
                 /\ chart[i].date = <<"MM/dd", day[i].month, day[i].day>>
                 /\ chart[i].count = SumIn(entries, day[i], "daily")
            /\ \A i, j \in 1..Len(chart) :
                 i < j => getTime(day[i]) < getTime(day[j])

\* The week-start or month-start buckets that hold an entry.
BucketsOf(list, chartView) ==
  {IF chartView = "weekly" THEN startOfWeek(list[i].date)
   ELSE startOfMonth(list[i].date) : i \in 1..Len(list)}

\* C20: in the weekly and the monthly view the chart has one point per
\* week-start or month-start bucket that holds an entry, the point's value
\* is the sum of exactly the entries of that bucket, and the points add up
\* to the sum of all entries.
C20_BucketSums ==
  view \in {"weekly", "monthly"}
    => /\ Len(chart) = Cardinality(BucketsOf(entries, view))
       /\ \A b \in BucketsOf(entries, view) :
            \E i \in 1..Len(chart) :
              /\ chart[i].date = (IF view = "weekly"
                                    THEN <<"MM/dd", b.month, b.day>>
                                    ELSE <<"MMM yyyy", b.month, b.year>>)
              /\ chart[i].count = SumIn(entries, b, view)
       /\ SumOfPoints(chart) = SumIn(entries, DateString(0, 0, 0), "any")

\* C28: the pushup statistics are the sum of the counts and that sum divided
\* by the number of distinct calendar days with an entry, rounded to the
\* nearest integer; both are 0 for an empty list, and the divisor is never 0.
C28_PushupStats ==
  LET total == SumIn(entries, DateString(0, 0, 0), "any")
      days == Cardinality(DaysOf(entries))
  IN /\ stats[1] = total
     /\ entries = <<>> => stats = <<0, 0>>
     /\ entries # <<>> =>
          /\ days > 0
          /\ 2 * stats[2] * days <= 2 * total + days
          /\ 2 * total + days < 2 * (stats[2] + 1) * days

\* Seven pushups on two days: the quotient 3.5 is shown as 4.
C28_Witness ==
  /\ Len(entries) = 2
  /\ stats = <<7, 4>>
  /\ Cardinality(DaysOf(entries)) = 2

\* What clearing leaves in the number field: undefined or the empty string.
Cleared(value) == value.t \in {"undefined", "empty"}

\* C21 as stated: when a submission completes, the date field is today after
\* a success and after a failure alike; the number field is cleared after a
\* success and keeps what was typed after a failure.
C21_DateResetAlways ==
  [][(entryForm'.event \in {"success", "error"} /\ entryForm'.event # entryForm.event)
       => /\ entryForm'.date = Today
          /\ entryForm'.event = "success" => Cleared(entryForm'.value)
          /\ entryForm'.event = "error" => entryForm'.value = entryForm.value]_vars

\* C21, amended: a submission that succeeds leaves the date field at today
\* and the number field cleared; one that fails leaves both fields as they
\* were, the date the user picked included.
C21_ResetOnSuccessOnly ==
  [][(entryForm'.event \in {"success", "error"} /\ entryForm'.event # entryForm.event)
       => /\ entryForm'.event = "success"
               => entryForm'.date = Today /\ Cleared(entryForm'.value)
          /\ entryForm'.event = "error"
               => /\ entryForm'.value = entryForm.value
                  /\ entryForm'.date = entryForm.date]_vars

\* A submission for an earlier day has failed: the form still shows the
\* count and the earlier day.
C21_Witness ==
  /\ entryForm.event = "error"
  /\ entryForm.date = Earlier
  /\ entryForm.value = JsNumber(30)
  /\ "Error" \in entryForm.toasts

\* What the claims call a usable number: a number above zero once parsed.
PositiveNumber(type, value) ==
  /\ value.t = "number"
  /\ IF type = "pushups" THEN value.v >= 10 ELSE value.v > 0

\* C27: a press of the submit button with an empty, non-numeric, zero or
\* negative value sends no request and shows the invalid-input toast; a
\* request is sent only for a value whose parsed number is above zero.
C27_InvalidInputRefused ==
  entryForm.event \in {"sent", "invalid", "threw"}
    => LET ok == PositiveNumber(entryForm.type, entryForm.value)
       IN /\ entryForm.pc = "posting" <=> ok
          /\ ~ok => /\ entryForm.event = "invalid"
                    /\ "Invalid input" \in entryForm.toasts

\* The rows of a table after a step that had the same id before it are the
\* rows they were.
RowsKept(table, tableAfter) ==
  \A r \in table : \A q \in tableAfter : q.id = r.id => q = r

\* C22: no step of the entry store updates a row: a row that is still there
\* has the id, userId, value and date it had; and a create neither changes
\* nor removes a row that existed.
C22_RowsImmutable ==
  [][/\ RowsKept(pushups, pushups')
     /\ RowsKept(walks, walks')
     /\ req.route \in {"POST /api/pushups", "POST /api/walks"}
          => pushups \subseteq pushups' /\ walks \subseteq walks']_vars

\* A second row was created beside a first one of the same user and day,
\* and the first is still there.
C22_Witness ==
  /\ res.route = "POST /api/pushups" /\ res.status = 200
  /\ \E r \in pushups : \E q \in res.rows :
       r.id < q.id /\ r.userId = q.userId /\ r.date = q.date

\* The responses request r has been sent.
Responses(r) ==
  Cardinality({i \in 1..Len(fc[r].steps) : fc[r].steps[i] = "response"})

\* C23: an authenticated form-check request whose upload was accepted gets
\* exactly one response: never a second one, and one by the time neither
\* the handler, the transcoder nor the remote call has a step left, the
\* transcoder that could not be started included.
C23_ExactlyOneResponse ==
  \A r \in Requests :
    (fc[r].authenticated /\ fc[r].stored)
      => /\ Responses(r) <= 1
         /\ ~ENABLED RequestNext(r) => Responses(r) = 1

\* C24: saveSample is called for an added entry only after its POST
\* succeeded, only on iOS, and only if the stored flag read 'true' when
\* onSuccess read it; and a write that failed leaves the entry in place and
\* shows no error.
C24_WriteOnlyWhenEnabled ==
  \A i \in Syncs :
    LET m == healthSync.mutations[i]
    IN /\ m.saveSamples > 0
            => /\ m.post = "success"
               /\ healthSync.platform = "ios"
               /\ m.read = "true"
       /\ m.stage = "failed" => m.entry /\ "Error" \notin m.toasts

\* One entry's write reached the health store and another's failed, the
\* flag having been switched off since.
C24_Witness ==
  /\ preference = "false"
  /\ \E i, j \in Syncs :
       /\ healthSync.mutations[i].stage = "written"
       /\ healthSync.mutations[j].stage = "failed"
       /\ healthSync.mutations[j].entry
       /\ healthSync.mutations[j].toasts = {"Success!"}

C26_OneUploadAtATime ==
  /\ formCheck.isAnalyzing <=> formCheck.inFlight = 1
  /\ formCheck.inFlight <= 1
  /\ formCheck.feedback # "null"
       => formCheck.outcome = "success:true" /\ formCheck.feedback \in ModelTexts

\* A second upload is in flight after a first one ended in an HTTP error.
C26_Witness ==
  /\ formCheck.sent = 2
  /\ formCheck.isAnalyzing /\ formCheck.inFlight = 1
  /\ formCheck.toast = "Error"
  /\ formCheck.feedback = "null"

\* C29: offsetX of a row is always between 0 and 80; after a touch-end it is
\* 0 or 80, 80 exactly when it was above 40 before; and a touch-move that is
\* right of where the touch started, or 10px or more away from it
\* vertically, leaves offsetX as it was.
C29_SwipeOffset ==
  /\ swipe.offsetX >= 0 /\ swipe.offsetX <= 80
  /\ swipe.event.kind = "end"
       => /\ swipe.offsetX \in {0, 80}
          /\ swipe.offsetX = 80 <=> swipe.event.before > 40
  /\ (/\ swipe.event.kind = "move"
      /\ \/ swipe.event.x > swipe.startX
         \/ swipe.event.y - swipe.startY >= 10
         \/ swipe.startY - swipe.event.y >= 10)
       => swipe.offsetX = swipe.event.before

\* A row that stood open at 80 was touched again and dragged to the right:
\* it is still at 80.
C29_Witness ==
  /\ swipe.event.kind = "move"
  /\ swipe.event.x > swipe.startX
  /\ swipe.event.before = 80
  /\ swipe.offsetX = 80

\* What the claim asks of a list and its rendering: nothing rendered for no
\* entries; else min(5, n) rows when collapsed and n when expanded, each row
\* an entry and no entry twice, no row older than the row below it, and no
\* hidden entry newer than a row.
RenderedRight(list) ==
  LET n == Len(list.entries)
      rows == list.rendered.rows
      shown == {rows[i].id : i \in 1..Len(rows)}
  IN /\ n = 0 => ~list.rendered.card /\ rows = <<>>
     /\ n > 0 =>
          /\ list.rendered.card
          /\ Len(rows) = IF list.isExpanded THEN n ELSE Math_min(5, n)
          /\ \A i \in 1..Len(rows) : \E k \in 1..n : list.entries[k] = rows[i]
          /\ Cardinality(shown) = Len(rows)
          /\ \A i, j \in 1..Len(rows) :
               i < j => getTime(rows[i].date) >= getTime(rows[j].date)
          /\ \A k \in 1..n :
               list.entries[k].id \notin shown
                 => \A i \in 1..Len(rows) :
                      getTime(rows[i].date) >= getTime(list.entries[k].date)

\* C30: the list is rendered as the claim asks before and after every step,
\* and a step that toggles the expansion keeps the entries and the order:
\* the collapsed rows are the first rows of the expanded ones.
C30_NewestFirst ==
  [][/\ RenderedRight(entryList) /\ RenderedRight(entryList')
     /\ entryList'.isExpanded # entryList.isExpanded
          => LET before == entryList.rendered.rows
                 after == entryList'.rendered.rows
                 short == IF entryList.isExpanded THEN after ELSE before
                 long == IF entryList.isExpanded THEN before ELSE after
             IN /\ entryList'.entries = entryList.entries
                /\ short = SubSeq(long, 1, Len(short))]_vars

\* Six entries, collapsed: five rows, and the entry left out is older than
\* the oldest row although it came first.
C30_Witness ==
  /\ Len(entryList.entries) = 6 /\ ~entryList.isExpanded
  /\ Len(entryList.rendered.rows) = 5
  /\ entryList.rendered.rows[1].id = 6
  /\ \A i \in 1..5 : entryList.rendered.rows[i].id # 1
  /\ getTime(entryList.entries[1].date) < getTime(entryList.rendered.rows[5].date)

====
